---- MODULE Spec2Model ----
(***************************************************************************)
(* pgcplus: the document indexing pipeline (uploadAndCreateDocument,       *)
(* uploadDocumentToGemini, getOrCreateFileSearchStore), the status update  *)
(* (PATCH -> updateDocumentStatus) and the cascading delete                *)
(* (DELETE -> deleteDocument), over three collaborators: the blob          *)
(* container, the 'documents' table and the Gemini File Search service.    *)
(*                                                                         *)
(* Every `await` of the source is a step boundary: one action runs from    *)
(* the completion of one awaited call to the start of the next one.  Every *)
(* awaited collaborator call may also throw.                               *)
(***************************************************************************)
EXTENDS Integers, Sequences, FiniteSets, TLC

(* ------------------------------ bounds -------------------------------- *)
NumSlow == 1         \* Spec: POST requests, whose operation may stay pending for ever
NumUploads == 2      \* SpecRace: concurrent POST requests, answered within MaxPending
NumRemoves == 1      \* DELETE /api/documents/[id] requests
NumPatches == 1      \* Spec: PATCH /api/documents/[id] requests
NumRetries == 2      \* SpecRemove: DELETE /api/documents/[id] requests
MaxChunks == 5       \* SpecSearch: grounding chunks that carry only a uri
MaxTitled == 2       \* SpecSearch: grounding chunks that carry a title
NumDocs == 2         \* SpecSearch: documents that getAllDocuments returns
MaxTexts == 3        \* SpecSearch: grounding chunks that carry a text
MaxMarker == 6       \* SpecSearch: the answer carries the markers [0]..[MaxMarker]
MaxClock == 1        \* Date.now() takes the values 0..MaxClock
MaxPending == 0      \* SpecRace: "not done" answers the service gives to one upload

(* -------------------------- program constants ------------------------- *)
maxAttempts == 60
pollInterval == 5000    \* the milliseconds of the setTimeout in the poll loop

Ids == 0..MaxClock
FileNames == {"handbook.pdf"}

(* JavaScript `undefined` for the optional string fields and for handles.  *)
Undefined == <<>>
NoId == -1

(* Strings that are built by concatenation are sequences of their parts.   *)
ServiceMsg == <<"quota exceeded">>
TimeoutMsg == <<"Gemini indexing timeout - operation did not complete in 5 minutes">>
StoreMsg == <<"Failed to create File Search Store - no name returned">>
CredentialMsg == <<"GEMINI_API_KEY is not defined in environment variables">>
SdkMsg(call) == <<"RestError: ", call>>
PatchMsg == <<"set by PATCH">>

VARIABLES
    clock,            \* the last value Date.now() returned
    blobs,            \* names of the blobs in the container
    table,            \* partition 'doc' of the table: id -> entity
    storeReg,         \* entity ('config','file-search-store'): its storeName
    cachedStoreName,  \* module variable of file-search-store.ts
    createCalls,      \* number of fileSearchStores.create calls made
    deleteCalls,      \* handles passed to files.delete
    apiKey,           \* process.env.GEMINI_API_KEY is set
    slow,             \* uploads whose operation the service may never finish
    up,               \* the POST requests
    rm,               \* the DELETE requests
    pt,               \* the PATCH requests
    search            \* the POST /api/search request

vars == <<clock, blobs, table, storeReg, cachedStoreName, createCalls,
          deleteCalls, apiKey, slow, up, rm, pt, search>>

(* ------------------------------ entities ------------------------------ *)
NoDoc ==
    [status |-> "absent", blobName |-> Undefined, geminiDocumentId |-> Undefined,
     geminiFileSearchStoreName |-> Undefined, errorMessage |-> Undefined]

Exists(id) == id \in Ids /\ table[id].status # "absent"

BlobName(now, fileName) == <<now, fileName>>

NewDocument(blobName) ==
    [status |-> "processing", blobName |-> blobName, geminiDocumentId |-> Undefined,
     geminiFileSearchStoreName |-> Undefined, errorMessage |-> Undefined]

(* { ...entity, ...updates }: a key of `updates` wins, also when undefined. *)
Spread(entity, updates) ==
    [f \in DOMAIN entity |-> IF f \in DOMAIN updates THEN updates[f] ELSE entity[f]]

(* updateEntity(updated, 'Merge'): properties that are present overwrite,   *)
(* undefined ones are not sent and leave the stored value.                  *)
Merge(stored, updated) ==
    [status |-> updated.status,
     blobName |-> updated.blobName,
     geminiDocumentId |->
        IF updated.geminiDocumentId = Undefined THEN stored.geminiDocumentId
        ELSE updated.geminiDocumentId,
     geminiFileSearchStoreName |->
        IF updated.geminiFileSearchStoreName = Undefined
        THEN stored.geminiFileSearchStoreName
        ELSE updated.geminiFileSearchStoreName,
     errorMessage |->
        IF updated.errorMessage = Undefined THEN stored.errorMessage
        ELSE updated.errorMessage]

(* ------------------------- retrieval service -------------------------- *)
FileHandle(u) == <<"files", u>>
OperationName(u) == <<"operations", u>>
StoreHandle(n) == <<"fileSearchStores", n>>
Unknown == <<"unknown", 0>>

Pending(u) == [done |-> FALSE, error |-> Undefined, response |-> Undefined,
               name |-> OperationName(u)]

(* The operation objects the service can answer with. *)
Operations(u) ==
    {Pending(u)}
    \cup {[done |-> TRUE, error |-> ServiceMsg, response |-> Undefined,
           name |-> OperationName(u)]}
    \cup {[done |-> TRUE, error |-> Undefined, response |-> r, name |-> n] :
            r \in {FileHandle(u), Undefined}, n \in {OperationName(u), Undefined}}

(* The operation's own name preferred to the document's. *)
GeminiDocumentIdByName(op) ==
    IF op.name # Undefined THEN op.name
    ELSE IF op.response # Undefined THEN op.response
    ELSE Unknown

GeminiDocumentId(op) ==
    IF op.response # Undefined THEN op.response
    ELSE IF op.name # Undefined THEN op.name
    ELSE Unknown

(* The loop test without the test of done. *)
LoopIgnoresDone(op, pollAttempts) == pollAttempts < maxAttempts

(* The loop test with <= for <. *)
LoopContinuesOffByOne(op, pollAttempts) == ~op.done /\ pollAttempts <= maxAttempts

LoopContinues(op, pollAttempts) == ~op.done /\ pollAttempts < maxAttempts

(* ------------------------- uploadAndCreateDocument -------------------- *)
ReadyUpdates(result) ==
    [geminiDocumentId |-> result.geminiDocumentId,
     geminiFileSearchStoreName |-> result.geminiFileSearchStoreName,
     status |-> "ready"]

(* The failed update without its message. *)
FailedUpdatesNoMessage(errorMessage) == [status |-> "failed", errorMessage |-> Undefined]

FailedUpdates(errorMessage) ==
    [status |-> "failed", errorMessage |-> <<"Gemini upload failed: ">> \o errorMessage]

NoResult == [geminiDocumentId |-> Undefined, geminiFileSearchStoreName |-> Undefined]

IdleUpload ==
    [pc |-> "idle", fileName |-> "", blobName |-> Undefined, id |-> NoId,
     storeName |-> Undefined, pollAttempts |-> 0, fetches |-> 0, waited |-> 0,
     storeIo |-> 0,
     op |-> Pending(0), result |-> NoResult, err |-> Undefined,
     cause |-> "none", entity |-> NoDoc, writes |-> 0, outcome |-> "none",
     http |-> 0, final |-> NoDoc, order |-> <<>>]

(* 201 whatever uploadAndCreateDocument did. *)
PostStatusAlwaysCreated(outcome) == 201

(* POST: what the handler answers for each way uploadAndCreateDocument ends. *)
PostStatus(outcome) == IF outcome = "returned" THEN 201 ELSE 500

(* The request is over: uploadAndCreateDocument returned or threw. *)
Finish(r, outcome, tbl) ==
    [r EXCEPT !.pc = "done", !.outcome = outcome, !.http = PostStatus(outcome),
              !.entity = NoDoc,
              !.final = IF r.id \in Ids THEN tbl[r.id] ELSE NoDoc]

(* A catch that issues the ingest call once more when that call threw. *)
CatchRetriesIngest(r, cause, errorMessage) ==
    IF cause = "ingest" /\ Len(r.order) < 4
    THEN [r EXCEPT !.pc = "ingest", !.order = Append(@, "ingest")]
    ELSE [r EXCEPT !.pc = "fail_read", !.err = errorMessage, !.storeIo = 0,
                   !.cause = IF r.cause = "none" THEN cause ELSE r.cause]

(* catch (error) of uploadAndCreateDocument: the next await is the         *)
(* getEntity of updateDoc(document.id, {status: 'failed', ...}).           *)
Catch(r, cause, errorMessage) ==
    [r EXCEPT !.pc = "fail_read", !.err = errorMessage, !.storeIo = 0,
              !.cause = IF r.cause = "none" THEN cause ELSE r.cause]

(* The checks after the loop without the test of operation.error. *)
AfterPollIgnoresError(r, op, pollAttempts) ==
    IF LoopContinues(op, pollAttempts)
    THEN [r EXCEPT !.pc = "poll", !.op = op, !.pollAttempts = pollAttempts]
    ELSE LET q == [r EXCEPT !.op = op, !.pollAttempts = pollAttempts] IN
         IF ~op.done THEN Catch(q, "timeout", TimeoutMsg)
         ELSE [q EXCEPT !.pc = "ready_read",
                        !.result = [geminiDocumentId |-> GeminiDocumentId(op),
                                    geminiFileSearchStoreName |-> q.storeName]]

(* The loop that starts over when the ceiling is reached. *)
AfterPollStartsOver(r, op, pollAttempts) ==
    IF LoopContinues(op, pollAttempts)
    THEN [r EXCEPT !.pc = "poll", !.op = op, !.pollAttempts = pollAttempts]
    ELSE LET q == [r EXCEPT !.op = op, !.pollAttempts = pollAttempts] IN
         IF ~op.done THEN [q EXCEPT !.pc = "poll", !.pollAttempts = 0,
                                    !.fetches = 0, !.waited = 0]
         ELSE IF op.error # Undefined
              THEN Catch(q, "service", <<"Gemini indexing failed: ">> \o op.error)
              ELSE [q EXCEPT !.pc = "ready_read",
                             !.result = [geminiDocumentId |-> GeminiDocumentId(op),
                                         geminiFileSearchStoreName |-> q.storeName]]

(* After the loop of uploadDocumentToGemini: timeout, service error or     *)
(* the result, and then the first await of the caller.                     *)
AfterPoll(r, op, pollAttempts) ==
    IF LoopContinues(op, pollAttempts)
    THEN [r EXCEPT !.pc = "poll", !.op = op, !.pollAttempts = pollAttempts]
    ELSE LET q == [r EXCEPT !.op = op, !.pollAttempts = pollAttempts] IN
         IF ~op.done THEN Catch(q, "timeout", TimeoutMsg)
         ELSE IF op.error # Undefined
              THEN Catch(q, "service", <<"Gemini indexing failed: ">> \o op.error)
              ELSE [q EXCEPT !.pc = "ready_read",
                             !.result = [geminiDocumentId |-> GeminiDocumentId(op),
                                         geminiFileSearchStoreName |-> q.storeName]]

(* getOrCreateFileSearchStore returned storeName: the ingest call          *)
(* uploadToFileSearchStore is issued and awaited.                          *)
IssueIngest(r, storeName) ==
    [r EXCEPT !.pc = "ingest", !.storeName = storeName, !.order = Append(@, "ingest")]

(* The start of uploadDocumentToGemini without getGeminiClient(). *)
StartGeminiWithoutKey(r) ==
    IF cachedStoreName # Undefined
    THEN IssueIngest(r, cachedStoreName)
    ELSE [r EXCEPT !.pc = "store_read"]

(* The start of uploadDocumentToGemini that reads the registration even    *)
(* when the cache is set.                                                  *)
StartGeminiAlwaysReads(r) ==
    IF ~apiKey THEN Catch(r, "credential", CredentialMsg)
    ELSE [r EXCEPT !.pc = "store_read"]

(* uploadDocumentToGemini up to its first await: getGeminiClient() and the *)
(* cache test of getOrCreateFileSearchStore.                               *)
StartGemini(r) ==
    IF ~apiKey THEN Catch(r, "credential", CredentialMsg)
    ELSE IF cachedStoreName # Undefined
         THEN IssueIngest(r, cachedStoreName)
         ELSE [r EXCEPT !.pc = "store_read"]

Put(u, r) == up' = [up EXCEPT ![u] = r]

(* uploadAndCreateDocument that starts at createDoc, without the blob. *)
PostSkipsUpload(u) ==
    /\ up[u].pc = "idle"
    /\ \E valid \in BOOLEAN, f \in FileNames :
          IF valid
          THEN Put(u, [up[u] EXCEPT !.pc = "create", !.fileName = f])
          ELSE Put(u, [up[u] EXCEPT !.pc = "done", !.outcome = "rejected", !.http = 400])
    /\ UNCHANGED <<clock, blobs, table, storeReg, cachedStoreName, createCalls,
                   deleteCalls, apiKey, slow, rm, pt, search>>

(* POST /api/documents: validation, then uploadAndCreateDocument starts.   *)
Post(u) ==
    /\ up[u].pc = "idle"
    /\ \E valid \in BOOLEAN, f \in FileNames :
          IF valid
          THEN Put(u, [up[u] EXCEPT !.pc = "azure", !.fileName = f])
          ELSE Put(u, [up[u] EXCEPT !.pc = "done", !.outcome = "rejected", !.http = 400])
    /\ UNCHANGED <<clock, blobs, table, storeReg, cachedStoreName, createCalls,
                   deleteCalls, apiKey, slow, rm, pt, search>>

(* Step 1: uploadToAzure. *)
UploadToAzure(u) ==
    /\ up[u].pc = "azure"
    /\ \E now \in clock..MaxClock, ok \in BOOLEAN :
          /\ clock' = now
          /\ IF ok
             THEN /\ blobs' = blobs \cup {BlobName(now, up[u].fileName)}
                  /\ Put(u, [up[u] EXCEPT !.pc = "create",
                                          !.blobName = BlobName(now, up[u].fileName),
                                          !.order = Append(@, "blob")])
             ELSE /\ blobs' = blobs
                  /\ Put(u, Finish(up[u], "thrown", table))
    /\ UNCHANGED <<table, storeReg, cachedStoreName, createCalls, deleteCalls,
                   apiKey, slow, rm, pt, search>>

(* Step 2: createDoc, then uploadDocumentToGemini up to its first await.   *)
(* createEntity refuses a rowKey that exists; its error is thrown on.      *)
CreateDoc(u) ==
    /\ up[u].pc = "create"
    /\ \E now \in clock..MaxClock, ok \in BOOLEAN :
          /\ clock' = now
          /\ IF ok /\ ~Exists(now)
             THEN /\ table' = [table EXCEPT ![now] = NewDocument(up[u].blobName)]
                  /\ Put(u, StartGemini([up[u] EXCEPT !.id = now,
                                                      !.order = Append(@, "record")]))
             ELSE /\ table' = table
                  /\ Put(u, [Finish(up[u], "thrown", table) EXCEPT
                                !.err = IF ok THEN <<"EntityAlreadyExists">>
                                        ELSE SdkMsg("createEntity")])
    /\ UNCHANGED <<blobs, storeReg, cachedStoreName, createCalls, deleteCalls,
                   apiKey, slow, rm, pt, search>>

(* One more call of the running getOrCreateFileSearchStore to the Metadata *)
(* Store or the Retrieval Service; the count ends with the call.           *)
Io(r) == [r EXCEPT !.storeIo = @ + 1]

(* The read that lets an error other than not-found fail the call. *)
StoreReadThrows(u) ==
    /\ up[u].pc = "store_read"
    /\ \E ok \in BOOLEAN :
          IF ok /\ storeReg # Undefined
          THEN /\ cachedStoreName' = storeReg
               /\ Put(u, IssueIngest(Io(up[u]), storeReg))
          ELSE /\ cachedStoreName' = cachedStoreName
               /\ IF storeReg # Undefined
                  THEN Put(u, Catch(Io(up[u]), "store", SdkMsg("getEntity")))
                  ELSE Put(u, [Io(up[u]) EXCEPT !.pc = "store_create"])
    /\ UNCHANGED <<clock, blobs, table, storeReg, createCalls, deleteCalls,
                   apiKey, slow, rm, pt, search>>

(* getOrCreateFileSearchStore: getEntity('config', 'file-search-store').   *)
(* Any throw of the read, not-found or other, falls through to creation.   *)
StoreRead(u) ==
    /\ up[u].pc = "store_read"
    /\ \E ok \in BOOLEAN :
          IF ok /\ storeReg # Undefined
          THEN /\ cachedStoreName' = storeReg
               /\ Put(u, IssueIngest(Io(up[u]), storeReg))
          ELSE /\ cachedStoreName' = cachedStoreName
               /\ Put(u, [Io(up[u]) EXCEPT !.pc = "store_create"])
    /\ UNCHANGED <<clock, blobs, table, storeReg, createCalls, deleteCalls,
                   apiKey, slow, rm, pt, search>>

(* The creation without the test of store.name. *)
StoreCreateUnchecked(u) ==
    /\ up[u].pc = "store_create"
    /\ createCalls' = createCalls + 1
    /\ \E answer \in {"name", "noname", "throw"} :
          CASE answer = "name" ->
                 Put(u, [Io(up[u]) EXCEPT !.pc = "store_persist",
                                          !.storeName = StoreHandle(createCalls + 1)])
            [] answer = "noname" ->
                 Put(u, [Io(up[u]) EXCEPT !.pc = "store_persist", !.storeName = Undefined])
            [] OTHER -> Put(u, Catch(Io(up[u]), "store", SdkMsg("fileSearchStores.create")))
    /\ UNCHANGED <<clock, blobs, table, storeReg, cachedStoreName, deleteCalls,
                   apiKey, slow, rm, pt, search>>

(* getOrCreateFileSearchStore: client.fileSearchStores.create. *)
StoreCreate(u) ==
    /\ up[u].pc = "store_create"
    /\ createCalls' = createCalls + 1
    /\ \E answer \in {"name", "noname", "throw"} :
          CASE answer = "name" ->
                 Put(u, [Io(up[u]) EXCEPT !.pc = "store_persist",
                                          !.storeName = StoreHandle(createCalls + 1)])
            [] answer = "noname" -> Put(u, Catch(Io(up[u]), "store", StoreMsg))
            [] OTHER -> Put(u, Catch(Io(up[u]), "store", SdkMsg("fileSearchStores.create")))
    /\ UNCHANGED <<clock, blobs, table, storeReg, cachedStoreName, deleteCalls,
                   apiKey, slow, rm, pt, search>>

(* The persist step that keeps and returns the caller's own store when     *)
(* createEntity throws.                                                    *)
StorePersistKeepsOwn(u) ==
    /\ up[u].pc = "store_persist"
    /\ \E ok \in BOOLEAN :
          IF ok /\ storeReg = Undefined
          THEN /\ storeReg' = up[u].storeName
               /\ cachedStoreName' = up[u].storeName
               /\ Put(u, IssueIngest(Io(up[u]), up[u].storeName))
          ELSE /\ storeReg' = storeReg
               /\ cachedStoreName' = up[u].storeName
               /\ Put(u, IssueIngest(Io(up[u]), up[u].storeName))
    /\ UNCHANGED <<clock, blobs, table, createCalls, deleteCalls,
                   apiKey, slow, rm, pt, search>>

(* getOrCreateFileSearchStore: createEntity(config), then the cache is set. *)
StorePersist(u) ==
    /\ up[u].pc = "store_persist"
    /\ \E ok \in BOOLEAN :
          IF ok /\ storeReg = Undefined
          THEN /\ storeReg' = up[u].storeName
               /\ cachedStoreName' = up[u].storeName
               /\ Put(u, IssueIngest(Io(up[u]), up[u].storeName))
          ELSE /\ UNCHANGED <<storeReg, cachedStoreName>>
               /\ Put(u, Catch([Io(up[u]) EXCEPT !.storeName = Undefined], "store",
                               SdkMsg("createEntity")))
    /\ UNCHANGED <<clock, blobs, table, createCalls, deleteCalls,
                   apiKey, slow, rm, pt, search>>

(* What the service answers to the k-th fetch of an upload (k = 0: to the  *)
(* ingest call).  It settles an operation (done, or the call throws) within *)
(* MaxPending fetches; that of a slow upload it may also leave pending for  *)
(* ever, or settle at the last two fetches before the ceiling.             *)
Settles(u, k) == k <= MaxPending + 1 \/ (u \in slow /\ k >= maxAttempts - 1)
Pends(u, k) == k <= MaxPending \/ u \in slow

Answers(u, k) ==
    (IF Settles(u, k) THEN Operations(u) \ {Pending(u)} ELSE {})
    \cup (IF Pends(u, k) THEN {Pending(u)} ELSE {})

(* Whether the call returns (TRUE) or throws (FALSE). *)
Returns(u, k) == IF Settles(u, k) THEN {TRUE, FALSE} ELSE {TRUE}

(* Step 4: client.fileSearchStores.uploadToFileSearchStore. *)
IngestCall(u) ==
    /\ up[u].pc = "ingest"
    /\ \E ok \in Returns(u, 0), op \in Answers(u, 0) :
          IF ok THEN Put(u, AfterPoll([up[u] EXCEPT !.storeIo = 0], op, 0))
          ELSE Put(u, Catch(up[u], "ingest", SdkMsg("uploadToFileSearchStore")))
    /\ UNCHANGED <<clock, blobs, table, storeReg, cachedStoreName, createCalls,
                   deleteCalls, apiKey, slow, rm, pt, search>>

(* One turn of the loop: the 5 second wait, client.operations.get,         *)
(* pollAttempts++, the loop test and what follows the loop.                *)
PollFetch(u) ==
    /\ up[u].pc = "poll"
    /\ \E ok \in Returns(u, up[u].pollAttempts + 1),
          op \in Answers(u, up[u].pollAttempts + 1) :
          LET r == [up[u] EXCEPT !.fetches = @ + 1, !.waited = @ + pollInterval] IN
          IF ok THEN Put(u, AfterPoll(r, op, up[u].pollAttempts + 1))
          ELSE Put(u, Catch(r, "poll", SdkMsg("operations.get")))
    /\ UNCHANGED <<clock, blobs, table, storeReg, cachedStoreName, createCalls,
                   deleteCalls, apiKey, slow, rm, pt, search>>

(* Step 5, updateDoc(document.id, {..., status: 'ready'}): getEntity. *)
ReadyRead(u) ==
    /\ up[u].pc = "ready_read"
    /\ \E ok \in BOOLEAN :
          IF ok /\ Exists(up[u].id)
          THEN Put(u, [up[u] EXCEPT !.pc = "ready_write", !.entity = table[up[u].id]])
          ELSE Put(u, Catch(up[u], "ready_write", SdkMsg("getEntity")))
    /\ UNCHANGED <<clock, blobs, table, storeReg, cachedStoreName, createCalls,
                   deleteCalls, apiKey, slow, rm, pt, search>>

(* Step 5 with an updateEntity that throws after it has changed the        *)
(* record.                                                                 *)
ReadyWriteThrowsAfterEffect(u) ==
    /\ up[u].pc = "ready_write"
    /\ \E ok \in BOOLEAN :
          IF ok /\ Exists(up[u].id)
          THEN /\ table' = [table EXCEPT ![up[u].id] =
                               Merge(@, Spread(up[u].entity, ReadyUpdates(up[u].result)))]
               /\ Put(u, Catch([up[u] EXCEPT !.writes = @ + 1], "ready_write",
                               SdkMsg("updateEntity")))
          ELSE /\ table' = table
               /\ Put(u, Catch(up[u], "ready_write", SdkMsg("updateEntity")))
    /\ UNCHANGED <<clock, blobs, storeReg, cachedStoreName, createCalls,
                   deleteCalls, apiKey, slow, rm, pt, search>>

(* Step 5: updateEntity(updated, 'Merge'), then return updatedDoc. *)
ReadyWrite(u) ==
    /\ up[u].pc = "ready_write"
    /\ \E ok \in BOOLEAN :
          IF ok /\ Exists(up[u].id)
          THEN /\ table' = [table EXCEPT ![up[u].id] =
                               Merge(@, Spread(up[u].entity, ReadyUpdates(up[u].result)))]
               /\ Put(u, Finish([up[u] EXCEPT !.writes = @ + 1], "returned", table'))
          ELSE /\ table' = table
               /\ Put(u, Catch(up[u], "ready_write", SdkMsg("updateEntity")))
    /\ UNCHANGED <<clock, blobs, storeReg, cachedStoreName, createCalls,
                   deleteCalls, apiKey, slow, rm, pt, search>>

(* Step 6, updateDoc(document.id, {status: 'failed', ...}): getEntity.     *)
(* A throw here leaves the catch block.                                    *)
FailRead(u) ==
    /\ up[u].pc = "fail_read"
    /\ \E ok \in BOOLEAN :
          IF ok /\ Exists(up[u].id)
          THEN Put(u, [up[u] EXCEPT !.pc = "fail_write", !.entity = table[up[u].id]])
          ELSE Put(u, Finish(up[u], "thrown", table))
    /\ UNCHANGED <<clock, blobs, table, storeReg, cachedStoreName, createCalls,
                   deleteCalls, apiKey, slow, rm, pt, search>>

(* Step 6: updateEntity(updated, 'Merge'), then `throw error`. *)
FailWrite(u) ==
    /\ up[u].pc = "fail_write"
    /\ \E ok \in BOOLEAN :
          IF ok /\ Exists(up[u].id)
          THEN /\ table' = [table EXCEPT ![up[u].id] =
                               Merge(@, Spread(up[u].entity, FailedUpdates(up[u].err)))]
               /\ Put(u, Finish([up[u] EXCEPT !.writes = @ + 1], "thrown", table'))
          ELSE /\ table' = table
               /\ Put(u, Finish(up[u], "thrown", table))
    /\ UNCHANGED <<clock, blobs, storeReg, cachedStoreName, createCalls,
                   deleteCalls, apiKey, slow, rm, pt, search>>

(* ------------------------ DELETE -> deleteDocument --------------------- *)
(* Of the entity that getDocById returns, deleteDocument reads blobName    *)
(* and geminiDocumentId.                                                   *)
Null == [found |-> FALSE, blobName |-> Undefined, geminiDocumentId |-> Undefined]
Found(entity) == [found |-> TRUE, blobName |-> entity.blobName,
                  geminiDocumentId |-> entity.geminiDocumentId]

IdleRemove == [pc |-> "idle", id |-> NoId, existed |-> FALSE, doc |-> Null,
               log |-> <<>>, missing |-> FALSE, warned |-> FALSE, err |-> Undefined,
               http |-> 0]

(* DELETE: 200 when deleteDocument returned, 500 when it threw. *)
DeleteStatus(outcome) == IF outcome = "returned" THEN 200 ELSE 500

(* if (doc.geminiDocumentId): deleteDocumentFromGemini, whose              *)
(* getGeminiClient() throws inside its own try when the key is missing.    *)
AfterBlob(doc) ==
    IF doc.geminiDocumentId # Undefined /\ apiKey THEN "gemini" ELSE "record"

(* The catch of deleteDocumentFromGemini has logged the error of           *)
(* getGeminiClient().                                                      *)
CredentialWarned(doc) == doc.geminiDocumentId # Undefined /\ ~apiKey

(* deleteDocument without its `if (doc)`. *)
AfterLookupUnguarded(doc) == "blob"

(* if (doc) { ... } after getDocById, then deleteDoc(id). *)
AfterLookup(doc) == IF doc.found THEN "blob" ELSE "record"

(* getDocumentById: getEntity, and null for whatever it throws. *)
GetDocumentById(id, ok) == IF ok /\ Exists(id) THEN Found(table[id]) ELSE Null

RemoveLookup(r) ==
    /\ rm[r].pc = "idle"
    /\ \E id \in Ids, ok \in BOOLEAN :
          rm' = [rm EXCEPT ![r] = [@ EXCEPT !.id = id,
                                            !.existed = Exists(id),
                                            !.doc = GetDocumentById(id, ok),
                                            !.pc = AfterLookup(GetDocumentById(id, ok))]]
    /\ UNCHANGED <<clock, blobs, table, storeReg, cachedStoreName, createCalls,
                   deleteCalls, apiKey, slow, up, pt, search>>

(* deleteFromAzure whose throw is caught and ignored. *)
RemoveBlobSwallows(r) ==
    /\ rm[r].pc = "blob"
    /\ \E ok \in BOOLEAN :
          IF ok
          THEN /\ blobs' = blobs \ {rm[r].doc.blobName}
               /\ rm' = [rm EXCEPT ![r] = [@ EXCEPT !.pc = AfterBlob(rm[r].doc),
                                                     !.warned = CredentialWarned(rm[r].doc),
                                                     !.missing = rm[r].doc.blobName \notin blobs,
                                                     !.log = Append(@, "blob")]]
          ELSE /\ blobs' = blobs
               /\ rm' = [rm EXCEPT ![r] = [@ EXCEPT !.pc = AfterBlob(rm[r].doc)]]
    /\ UNCHANGED <<clock, table, storeReg, cachedStoreName, createCalls,
                   deleteCalls, apiKey, slow, up, pt, search>>

(* deleteFromAzure(doc.blobName): deleteIfExists. *)
RemoveBlob(r) ==
    /\ rm[r].pc = "blob"
    /\ \E ok \in BOOLEAN :
          IF ok
          THEN /\ blobs' = blobs \ {rm[r].doc.blobName}
               /\ rm' = [rm EXCEPT ![r] = [@ EXCEPT !.pc = AfterBlob(rm[r].doc),
                                                     !.warned = CredentialWarned(rm[r].doc),
                                                     !.missing = rm[r].doc.blobName \notin blobs,
                                                     !.log = Append(@, "blob")]]
          ELSE /\ blobs' = blobs
               /\ rm' = [rm EXCEPT ![r] = [@ EXCEPT !.pc = "done",
                                                     !.err = SdkMsg("deleteIfExists"),
                                                     !.http = DeleteStatus("thrown")]]
    /\ UNCHANGED <<clock, table, storeReg, cachedStoreName, createCalls,
                   deleteCalls, apiKey, slow, up, pt, search>>

(* deleteDocumentFromGemini without its try/catch. *)
RemoveGeminiThrows(r) ==
    /\ rm[r].pc = "gemini"
    /\ deleteCalls' = deleteCalls \cup {rm[r].doc.geminiDocumentId}
    /\ \E ok \in BOOLEAN :
          rm' = [rm EXCEPT ![r] =
                   IF ok THEN [@ EXCEPT !.pc = "record", !.log = Append(@, "gemini")]
                   ELSE [@ EXCEPT !.pc = "done", !.warned = TRUE,
                                  !.log = Append(@, "gemini"),
                                  !.err = SdkMsg("files.delete"),
                                  !.http = DeleteStatus("thrown")]]
    /\ UNCHANGED <<clock, blobs, table, storeReg, cachedStoreName, createCalls,
                   apiKey, slow, up, pt, search>>

(* deleteDocumentFromGemini: client.files.delete; a throw (handle already  *)
(* gone, service error) is caught and only logged with console.warn.       *)
RemoveGemini(r) ==
    /\ rm[r].pc = "gemini"
    /\ deleteCalls' = deleteCalls \cup {rm[r].doc.geminiDocumentId}
    /\ \E ok \in BOOLEAN :
          rm' = [rm EXCEPT ![r] = [@ EXCEPT !.pc = "record", !.warned = ~ok,
                                            !.log = Append(@, "gemini")]]
    /\ UNCHANGED <<clock, blobs, table, storeReg, cachedStoreName, createCalls,
                   apiKey, slow, up, pt, search>>

(* What deleteEntity throws: the table's 404 when it was reached and the   *)
(* entity is absent, another error otherwise.                              *)
DeleteError(reached) ==
    IF reached THEN <<"ResourceNotFound">> ELSE SdkMsg("deleteEntity")

(* deleteDoc(id): deleteEntity('doc', id). *)
RemoveRecord(r) ==
    /\ rm[r].pc = "record"
    /\ \E ok \in BOOLEAN :
          IF ok /\ Exists(rm[r].id)
          THEN /\ table' = [table EXCEPT ![rm[r].id] = NoDoc]
               /\ rm' = [rm EXCEPT ![r] = [@ EXCEPT !.pc = "done",
                                                     !.log = Append(@, "record"),
                                                     !.http = DeleteStatus("returned")]]
          ELSE /\ table' = table
               /\ rm' = [rm EXCEPT ![r] = [@ EXCEPT !.pc = "done",
                                                     !.err = DeleteError(ok),
                                                     !.http = DeleteStatus("thrown")]]
    /\ UNCHANGED <<clock, blobs, storeReg, cachedStoreName, createCalls,
                   deleteCalls, apiKey, slow, up, pt, search>>

(* ---------------------- PATCH -> updateDocumentStatus ------------------ *)
NoUpdates == [status |-> "", errorMessage |-> Undefined]
IdlePatch == [pc |-> "idle", id |-> NoId, updates |-> NoUpdates, entity |-> NoDoc,
              http |-> 0]

(* The request bodies tried: each status without a message, 'failed' with  *)
(* one, and a body without a valid status.                                 *)
Bodies ==
    {[status |-> s, errorMessage |-> Undefined] : s \in {"processing", "ready", "failed", ""}}
    \cup {[status |-> "failed", errorMessage |-> PatchMsg]}

ValidStatus(status) == status \in {"processing", "ready", "failed"}

(* updateDocumentStatus(id, status, errorMessage). *)
StatusUpdates(status, errorMessage) == [status |-> status, errorMessage |-> errorMessage]

(* PATCH: validation, then updateDoc: getEntity. *)
PatchRead(p) ==
    /\ pt[p].pc = "idle"
    /\ \E id \in Ids, body \in Bodies, ok \in BOOLEAN :
          pt' = [pt EXCEPT ![p] =
                   IF ~ValidStatus(body.status)
                   THEN [@ EXCEPT !.pc = "done", !.http = 400]
                   ELSE IF ok /\ Exists(id)
                   THEN [@ EXCEPT !.pc = "write", !.id = id, !.entity = table[id],
                                  !.updates = StatusUpdates(body.status, body.errorMessage)]
                   ELSE [@ EXCEPT !.pc = "done", !.http = 500]]
    /\ UNCHANGED <<clock, blobs, table, storeReg, cachedStoreName, createCalls,
                   deleteCalls, apiKey, slow, up, rm, search>>

(* updateDoc: updateEntity(updated, 'Merge'). *)
PatchWrite(p) ==
    /\ pt[p].pc = "write"
    /\ \E ok \in BOOLEAN :
          IF ok /\ Exists(pt[p].id)
          THEN /\ table' = [table EXCEPT ![pt[p].id] =
                               Merge(@, Spread(pt[p].entity, pt[p].updates))]
               /\ pt' = [pt EXCEPT ![p] = [IdlePatch EXCEPT !.pc = "done", !.http = 200]]
          ELSE /\ table' = table
               /\ pt' = [pt EXCEPT ![p] = [IdlePatch EXCEPT !.pc = "done", !.http = 500]]
    /\ UNCHANGED <<clock, blobs, storeReg, cachedStoreName, createCalls,
                   deleteCalls, apiKey, slow, up, rm, search>>

(* ---------------------- POST /api/search: citations ------------------- *)
(* A title is the sequence of its characters; '' is the empty sequence.    *)
(* A uri and a document id are strings; NoHandle is the geminiDocumentId   *)
(* of a document that has none (undefined), which equals no uri.           *)
NoHandle == "undefined"

(* The text of a chunk that has none. *)
NoText == "undefined"

(* String.prototype.toLowerCase, on the letters that the titles use. *)
Lower(c) ==
    CASE c = "L" -> "l" [] c = "P" -> "p" [] c = "D" -> "d" [] c = "O" -> "o"
      [] c = "C" -> "c" [] c = "X" -> "x" [] c = "F" -> "f" [] c = "T" -> "t"
      [] c = "Z" -> "z" [] OTHER -> c

ToLowerCase(t) == [i \in 1..Len(t) |-> Lower(t[i])]

Tail4(t) == SubSeq(t, Len(t) - 3, Len(t))
Tail5(t) == SubSeq(t, Len(t) - 4, Len(t))

(* The replace without the i flag. *)
StripExtensionCaseSensitive(t) ==
    IF Len(t) >= 5 /\ Tail5(t) = <<".", "d", "o", "c", "x">>
    THEN SubSeq(t, 1, Len(t) - 5)
    ELSE IF Len(t) >= 4 /\ Tail4(t) \in {<<".", "p", "d", "f">>, <<".", "d", "o", "c">>,
                                          <<".", "t", "x", "t">>}
    THEN SubSeq(t, 1, Len(t) - 4)
    ELSE t

(* title.replace(/\.(pdf|docx?|txt)$/i, ''). *)
StripExtension(t) ==
    IF Len(t) >= 5 /\ ToLowerCase(Tail5(t)) = <<".", "d", "o", "c", "x">>
    THEN SubSeq(t, 1, Len(t) - 5)
    ELSE IF Len(t) >= 4 /\ ToLowerCase(Tail4(t)) \in {<<".", "p", "d", "f">>,
                                                        <<".", "d", "o", "c">>,
                                                        <<".", "t", "x", "t">>}
    THEN SubSeq(t, 1, Len(t) - 4)
    ELSE t

(* chunk.web?.uri || chunk.retrievedContext?.uri || ... || ''. *)
GeminiFileId(chunk) == chunk.uri

(* chunk.web?.title || chunk.retrievedContext?.title || ''. *)
ChunkTitle(chunk) == chunk.title

(* The predicates of the four allDocuments.find calls. *)
ByHandle(doc, chunk) == doc.geminiDocumentId # NoHandle /\ doc.geminiDocumentId = GeminiFileId(chunk)
ByExactTitle(doc, chunk) == doc.title = ChunkTitle(chunk)
ByLowerTitle(doc, chunk) == ToLowerCase(doc.title) = ToLowerCase(ChunkTitle(chunk))
ByStrippedTitle(doc, chunk) ==
    ToLowerCase(StripExtension(doc.title)) = ToLowerCase(StripExtension(ChunkTitle(chunk)))

(* Array.prototype.find: the position of the first document that           *)
(* satisfies the strategy, 0 for undefined.                                *)
Find(docs, chunk, strategy) ==
    LET Holds(i) == CASE strategy = 0 -> ByHandle(docs[i], chunk)
                      [] strategy = 1 -> ByExactTitle(docs[i], chunk)
                      [] strategy = 2 -> ByLowerTitle(docs[i], chunk)
                      [] OTHER -> ByStrippedTitle(docs[i], chunk)
        hits == {i \in 1..Len(docs) : Holds(i)}
    IN IF hits = {} THEN 0 ELSE CHOOSE i \in hits : \A j \in hits : i <= j

(* The extension strategy tried before the two others on titles. *)
MatchedByStrippedFirst(docs, chunk) ==
    IF Find(docs, chunk, 0) # 0 THEN 0
    ELSE IF ChunkTitle(chunk) = <<>> THEN 4
    ELSE IF Find(docs, chunk, 3) # 0 THEN 3
    ELSE IF Find(docs, chunk, 1) # 0 THEN 1
    ELSE IF Find(docs, chunk, 2) # 0 THEN 2
    ELSE 4

(* The strategy that matchedDoc comes from: 0 the handle, 1 to 3 the title *)
(* strategies, 4 when matchedDoc stays undefined.                          *)
MatchedBy(docs, chunk) ==
    IF Find(docs, chunk, 0) # 0 THEN 0
    ELSE IF ChunkTitle(chunk) = <<>> THEN 4
    ELSE IF Find(docs, chunk, 1) # 0 THEN 1
    ELSE IF Find(docs, chunk, 2) # 0 THEN 2
    ELSE IF Find(docs, chunk, 3) # 0 THEN 3
    ELSE 4

(* matchedDoc, as a position in allDocuments, 0 for undefined. *)
MatchedDoc(docs, chunk) ==
    IF MatchedBy(docs, chunk) = 4 THEN 0 ELSE Find(docs, chunk, MatchedBy(docs, chunk))

(* matchedDoc?.id || geminiFileId. *)
DocumentId(docs, chunk) ==
    IF MatchedDoc(docs, chunk) # 0 THEN docs[MatchedDoc(docs, chunk)].id
    ELSE GeminiFileId(chunk)

(* matchedDoc?.title || chunk title || 'Unknown Document'. *)
CitationTitle(docs, chunk) ==
    IF MatchedDoc(docs, chunk) # 0 /\ docs[MatchedDoc(docs, chunk)].title # <<>>
    THEN docs[MatchedDoc(docs, chunk)].title
    ELSE IF ChunkTitle(chunk) # <<>> THEN ChunkTitle(chunk)
    ELSE <<"Unknown Document">>

(* chunk.retrievedContext?.text || ''. *)
Snippet(chunk) == IF chunk.text \in {NoText, ""} THEN "" ELSE chunk.text

(* The position in citationMap (a Map keeps insertion order) of the entry  *)
(* with that key, 0 when citationMap.has(documentId) is false.             *)
Has(citationMap, documentId) ==
    IF \E k \in 1..Len(citationMap) : citationMap[k].documentId = documentId
    THEN CHOOSE k \in 1..Len(citationMap) : citationMap[k].documentId = documentId
    ELSE 0

(* The forEach without the citationMap.has test. *)
AddChunkAlwaysSets(citationMap, docs, chunk, chunkIndex) ==
    Append(citationMap, [documentId |-> DocumentId(docs, chunk),
                         title |-> CitationTitle(docs, chunk),
                         snippet |-> Snippet(chunk),
                         chunkIndices |-> <<chunkIndex>>])

(* The forEach that lets a later chunk of a document replace the snippet. *)
AddChunkLastSnippet(citationMap, docs, chunk, chunkIndex) ==
    LET documentId == DocumentId(docs, chunk)
        k == Has(citationMap, documentId)
    IN IF k = 0
       THEN Append(citationMap, [documentId |-> documentId,
                                 title |-> CitationTitle(docs, chunk),
                                 snippet |-> Snippet(chunk),
                                 chunkIndices |-> <<chunkIndex>>])
       ELSE [citationMap EXCEPT ![k].chunkIndices = Append(@, chunkIndex),
                                ![k].snippet = Snippet(chunk)]

(* The forEach without the else branch: a later chunk of a document adds   *)
(* nothing.                                                                *)
AddChunkDropsLater(citationMap, docs, chunk, chunkIndex) ==
    LET documentId == DocumentId(docs, chunk)
        k == Has(citationMap, documentId)
    IN IF k = 0
       THEN Append(citationMap, [documentId |-> documentId,
                                 title |-> CitationTitle(docs, chunk),
                                 snippet |-> Snippet(chunk),
                                 chunkIndices |-> <<chunkIndex>>])
       ELSE citationMap

(* One turn of groundingChunks.forEach. *)
AddChunk(citationMap, docs, chunk, chunkIndex) ==
    LET documentId == DocumentId(docs, chunk)
        k == Has(citationMap, documentId)
    IN IF k = 0
       THEN Append(citationMap, [documentId |-> documentId,
                                 title |-> CitationTitle(docs, chunk),
                                 snippet |-> Snippet(chunk),
                                 chunkIndices |-> <<chunkIndex>>])
       ELSE [citationMap EXCEPT ![k].chunkIndices = Append(@, chunkIndex)]

(* index = position, without the + 1. *)
CitationsFromZero(citationMap) ==
    [k \in 1..Len(citationMap) |->
        [documentId |-> citationMap[k].documentId, title |-> citationMap[k].title,
         snippet |-> citationMap[k].snippet, index |-> k - 1, chunkIndices |-> citationMap[k].chunkIndices]]

(* Array.from(citationMap.values()).map(...): index = position + 1. *)
Citations(citationMap) ==
    [k \in 1..Len(citationMap) |->
        [documentId |-> citationMap[k].documentId, title |-> citationMap[k].title,
         snippet |-> citationMap[k].snippet, index |-> k, chunkIndices |-> citationMap[k].chunkIndices]]

(* chunkToCitationMap[chunkIndex] = citation.index, citation by citation;  *)
(* the last citation that lists a chunk index wins.                        *)
ChunkToCitationMap(citations) ==
    LET Lists(k, i) == \E j \in 1..Len(citations[k].chunkIndices) :
                          citations[k].chunkIndices[j] = i
        keys == {i \in 0..(MaxChunks + MaxTitled) : \E k \in 1..Len(citations) : Lists(k, i)}
    IN [i \in keys |->
          citations[CHOOSE k \in 1..Len(citations) :
                       Lists(k, i) /\ \A m \in 1..Len(citations) : Lists(m, i) => m <= k].index]

IdleSearch == [pc |-> "idle", docs |-> <<>>, chunks |-> <<>>, chunkIndex |-> 0,
               citationMap |-> <<>>, citations |-> <<>>,
               chunkToCitationMap |-> [i \in {} |-> 0], processedContent |-> <<>>,
               http |-> 0, err |-> Undefined]

(* groundingChunks.forEach: the next chunk. *)
ResolveChunk ==
    /\ search.pc = "resolve"
    /\ search.chunkIndex < Len(search.chunks)
    /\ search' = [search EXCEPT
                     !.citationMap = AddChunk(@, search.docs,
                                              search.chunks[search.chunkIndex + 1],
                                              search.chunkIndex),
                     !.chunkIndex = @ + 1]
    /\ UNCHANGED <<clock, blobs, table, storeReg, cachedStoreName, createCalls,
                   deleteCalls, apiKey, slow, up, rm, pt>>

(* After the forEach: citations, chunkToCitationMap and the response. *)
Respond ==
    /\ search.pc = "resolve"
    /\ search.chunkIndex = Len(search.chunks)
    /\ search' = [search EXCEPT
                     !.pc = "done", !.http = 200,
                     !.citations = Citations(search.citationMap),
                     !.chunkToCitationMap = ChunkToCitationMap(Citations(search.citationMap))]
    /\ UNCHANGED <<clock, blobs, table, storeReg, cachedStoreName, createCalls,
                   deleteCalls, apiKey, slow, up, rm, pt>>

(* ------------------- page.tsx: MarkdownWithCitations ------------------ *)
(* The answer's markers [k], by their numbers, in the order of the text.   *)
Content == [i \in 1..(MaxMarker + 1) |-> i - 1]

(* citations.find(c => c.index === citationIndex): the position of the     *)
(* first such citation, 0 for undefined.                                   *)
FindCitation(citations, citationIndex) ==
    LET hits == {j \in 1..Len(citations) : citations[j].index = citationIndex}
    IN IF hits = {} THEN 0 ELSE CHOOSE j \in hits : \A m \in hits : j <= m

(* The replacer with chunkIndex = chunkNum. *)
ReplaceMarkerOneBased(chunkNum, citations, chunkToCitationMap) ==
    LET chunkIndex == chunkNum
    IN IF chunkIndex \in DOMAIN chunkToCitationMap
          /\ FindCitation(citations, chunkToCitationMap[chunkIndex]) # 0
       THEN <<"link", chunkToCitationMap[chunkIndex], chunkToCitationMap[chunkIndex],
              citations[FindCitation(citations, chunkToCitationMap[chunkIndex])].title>>
       ELSE <<"match", chunkNum>>

(* The replacer of content.replace(/\[(\d+)\]/g, ...) on the marker        *)
(* [chunkNum]: the link [c](#citation-c "title") or the match itself. The  *)
(* response always carries chunkToCitationMap, so the first branch runs.   *)
ReplaceMarker(chunkNum, citations, chunkToCitationMap) ==
    LET chunkIndex == chunkNum - 1
    IN IF chunkIndex \in DOMAIN chunkToCitationMap
          /\ FindCitation(citations, chunkToCitationMap[chunkIndex]) # 0
       THEN <<"link", chunkToCitationMap[chunkIndex], chunkToCitationMap[chunkIndex],
              citations[FindCitation(citations, chunkToCitationMap[chunkIndex])].title>>
       ELSE <<"match", chunkNum>>

(* The page renders the answer of the response. *)
Render ==
    /\ search.pc = "done"
    /\ search' = [search EXCEPT
                     !.pc = "rendered",
                     !.processedContent =
                         [i \in 1..Len(Content) |->
                             ReplaceMarker(Content[i], search.citations,
                                           search.chunkToCitationMap)]]
    /\ UNCHANGED <<clock, blobs, table, storeReg, cachedStoreName, createCalls,
                   deleteCalls, apiKey, slow, up, rm, pt>>

(* ------------------------------ the process --------------------------- *)
(* The process restarts between requests: the module variable              *)
(* cachedStoreName is null again, the stores keep what they hold.          *)
Restart ==
    /\ cachedStoreName # Undefined
    /\ \A u \in DOMAIN up : up[u].pc \in {"idle", "done"}
    /\ \A r \in DOMAIN rm : rm[r].pc \in {"idle", "done"}
    /\ \A p \in DOMAIN pt : pt[p].pc \in {"idle", "done"}
    /\ cachedStoreName' = Undefined
    /\ UNCHANGED <<clock, blobs, table, storeReg, createCalls, deleteCalls,
                   apiKey, slow, up, rm, pt, search>>

(* ---------------------------- specifications -------------------------- *)
Start ==
    /\ clock = 0
    /\ blobs = {}
    /\ table = [i \in Ids |-> NoDoc]
    /\ storeReg = Undefined
    /\ cachedStoreName = Undefined
    /\ createCalls = 0
    /\ deleteCalls = {}
    /\ apiKey \in BOOLEAN
    /\ search = IdleSearch

(* One upload at a time, with the status updates and deletes of clients. *)
Init ==
    /\ Start
    /\ slow = 1..NumSlow
    /\ up = [u \in 1..NumSlow |-> IdleUpload]
    /\ rm = [r \in 1..NumRemoves |-> IdleRemove]
    /\ pt = [p \in 1..NumPatches |-> IdlePatch]

Ingest ==
    \/ \E u \in DOMAIN up : Post(u)
    \/ \E u \in DOMAIN up : UploadToAzure(u)
    \/ \E u \in DOMAIN up : CreateDoc(u)
    \/ \E u \in DOMAIN up : StoreRead(u)
    \/ \E u \in DOMAIN up : StoreCreate(u)
    \/ \E u \in DOMAIN up : StorePersist(u)
    \/ \E u \in DOMAIN up : IngestCall(u)
    \/ \E u \in DOMAIN up : PollFetch(u)
    \/ \E u \in DOMAIN up : ReadyRead(u)
    \/ \E u \in DOMAIN up : ReadyWrite(u)
    \/ \E u \in DOMAIN up : FailRead(u)
    \/ \E u \in DOMAIN up : FailWrite(u)

Remove ==
    \/ \E r \in DOMAIN rm : RemoveLookup(r)
    \/ \E r \in DOMAIN rm : RemoveBlob(r)
    \/ \E r \in DOMAIN rm : RemoveGemini(r)
    \/ \E r \in DOMAIN rm : RemoveRecord(r)

Patch ==
    \/ \E p \in DOMAIN pt : PatchRead(p)
    \/ \E p \in DOMAIN pt : PatchWrite(p)

Next == Ingest \/ Remove \/ Patch

Spec == Init /\ [][Next]_vars

(* The same process with the scheduling of the runtime: a call whose       *)
(* awaited collaborator call has returned or thrown goes on.               *)
SpecLive == Init /\ [][Next]_vars /\ WF_vars(Ingest)

(* Concurrent uploads and deletes. *)
InitRace ==
    /\ Start
    /\ apiKey
    /\ slow = {}
    /\ up = [u \in 1..NumUploads |-> IdleUpload]
    /\ rm = [r \in 1..NumRemoves |-> IdleRemove]
    /\ pt = <<>>

NextRace == Ingest \/ Remove

SpecRace == InitRace /\ [][NextRace]_vars

(* One upload and repeated or concurrent deletes. *)
InitRemove ==
    /\ Start
    /\ apiKey
    /\ slow = {}
    /\ up = [u \in 1..NumSlow |-> IdleUpload]
    /\ rm = [r \in 1..NumRetries |-> IdleRemove]
    /\ pt = <<>>

NextRemove == Ingest \/ Remove

SpecRemove == InitRemove /\ [][NextRemove]_vars

(* The callers of getOrCreateFileSearchStore, across restarts. *)
InitStore ==
    /\ Start
    /\ apiKey
    /\ slow = {}
    /\ up = [u \in 1..NumUploads |-> IdleUpload]
    /\ rm = <<>>
    /\ pt = <<>>

NextStore == Ingest \/ Restart

SpecStore == InitStore /\ [][NextStore]_vars

(* The inputs of the citation resolution. *)
Lp == <<"L", "p">>
Handles == {"files/a", "files/b"}
DocTitles == {Lp, <<"l", "p">>, Lp \o <<".", "p", "d", "f">>,
              Lp \o <<".", "d", "o", "c", "s">>, <<"Q">>}
ChunkTitles == {<<>>, Lp, <<"L", "P">>, Lp \o <<".", "D", "O", "C", "X">>,
                Lp \o <<".", "t", "x", "t">>, <<"Z">>}
Uris == Handles \cup {"files/x", ""}

SeqsUpTo(S, n) == UNION {[1..m -> S] : m \in 0..n}

(* Two documents that are found by their handles. *)
IndexedDocs ==
    <<[id |-> "1", title |-> Lp, geminiDocumentId |-> "files/a"],
      [id |-> "2", title |-> <<"Q">>, geminiDocumentId |-> "files/b"]>>

UriChunks == {[uri |-> h, title |-> <<>>, text |-> NoText] : h \in Uris}
TitledChunks ==
    {[uri |-> h, title |-> t, text |-> NoText] :
        h \in {"files/a", "files/x", ""}, t \in ChunkTitles}

(* Chunks of the indexed documents with and without a text. *)
Texts == {NoText, "", "s", "t"}
TextChunks == {[uri |-> h, title |-> <<>>, text |-> x] : h \in Handles, x \in Texts}

(* allDocuments: ids by position, any title, with or without a handle. *)
DocLists ==
    {[i \in 1..NumDocs |-> [id |-> IF i = 1 THEN "1" ELSE IF i = 2 THEN "2" ELSE "3",
                             title |-> t[i], geminiDocumentId |-> g[i]]] :
        t \in [1..NumDocs -> DocTitles], g \in [1..NumDocs -> {"files/a", NoHandle}]}

(* Many chunks with only a uri, over the indexed documents; few chunks     *)
(* with titles, over every list of documents.                              *)
ChunkLists ==
    SeqsUpTo(UriChunks, MaxChunks) \cup SeqsUpTo(TitledChunks, MaxTitled)
        \cup SeqsUpTo(TextChunks, MaxTexts)

(* What the Retrieval Service grounds the answer of a query on. *)
QueryChunks == {<<>>, <<[uri |-> "files/a", title |-> <<>>, text |-> "s"]>>}

(* POST /api/search up to the forEach: getGeminiClient(), then             *)
(* getOrCreateFileSearchStore() on a process that has the handle cached,   *)
(* generateContent and getAllDocuments; the catch answers 500.             *)
Query ==
    /\ search.pc = "idle"
    /\ IF ~apiKey
       THEN search' = [search EXCEPT !.pc = "failed", !.http = 500, !.err = CredentialMsg]
       ELSE /\ cachedStoreName # Undefined
            /\ \E ok \in BOOLEAN, chunks \in QueryChunks :
                  IF ok
                  THEN search' = [search EXCEPT !.pc = "resolve", !.docs = IndexedDocs,
                                                !.chunks = chunks]
                  ELSE search' = [search EXCEPT !.pc = "failed", !.http = 500,
                                                !.err = SdkMsg("generateContent")]
    /\ UNCHANGED <<clock, blobs, table, storeReg, cachedStoreName, createCalls,
                   deleteCalls, apiKey, slow, up, rm, pt>>

(* The process is started again with or without GEMINI_API_KEY in its      *)
(* environment: geminiClient and cachedStoreName are null again.           *)
Redeploy ==
    /\ \A u \in DOMAIN up : up[u].pc \in {"idle", "done"}
    /\ \A r \in DOMAIN rm : rm[r].pc \in {"idle", "done"}
    /\ search.pc \in {"idle", "failed", "rendered"}
    /\ apiKey' = ~apiKey
    /\ cachedStoreName' = Undefined
    /\ UNCHANGED <<clock, blobs, table, storeReg, createCalls, deleteCalls,
                   slow, up, rm, pt, search>>

(* One upload, one delete and one search, across deployments with and      *)
(* without the credential.                                                 *)
InitConfig ==
    /\ Start
    /\ slow = {}
    /\ up = [u \in 1..NumSlow |-> IdleUpload]
    /\ rm = [r \in 1..NumRemoves |-> IdleRemove]
    /\ pt = <<>>

NextConfig == Ingest \/ Remove \/ Query \/ ResolveChunk \/ Respond \/ Render \/ Redeploy

SpecConfig == InitConfig /\ [][NextConfig]_vars

InitSearch ==
    /\ clock = 0
    /\ blobs = {}
    /\ table = [i \in Ids |-> NoDoc]
    /\ storeReg = Undefined
    /\ cachedStoreName = Undefined
    /\ createCalls = 0
    /\ deleteCalls = {}
    /\ apiKey = TRUE
    /\ slow = {}
    /\ up = <<>>
    /\ rm = <<>>
    /\ pt = <<>>
    /\ \E docs \in {IndexedDocs} \cup DocLists, chunks \in ChunkLists :
          /\ \/ docs = IndexedDocs /\ chunks \in SeqsUpTo(UriChunks, MaxChunks)
             \/ docs = IndexedDocs /\ chunks \in SeqsUpTo(TextChunks, MaxTexts)
             \/ docs \in DocLists /\ chunks \in SeqsUpTo(TitledChunks, MaxTitled)
          /\ search = [IdleSearch EXCEPT !.pc = "resolve", !.docs = docs, !.chunks = chunks]

NextSearch == ResolveChunk \/ Respond \/ Render

SpecSearch == InitSearch /\ [][NextSearch]_vars

(* ------------------------------ properties ---------------------------- *)
Done(u) == up[u].pc = "done" /\ up[u].outcome \in {"returned", "thrown"}

(* A DELETE request for the document has started. *)
RemoveInvoked(id) == \E r \in DOMAIN rm : rm[r].pc # "idle" /\ rm[r].id = id

(* A DELETE request has deleted the blob of that name. *)
BlobDeletedByRemove(b) ==
    \E r \in DOMAIN rm :
        /\ rm[r].doc.blobName = b
        /\ \E i \in 1..Len(rm[r].log) : rm[r].log[i] = "blob"

Contains(s, part) == \E i \in 1..Len(s) : s[i] = part

(* The write of updateDoc in step 5 or in the catch block was accepted. *)
WriteAccepted(u) == up[u].writes = 1

(* C1: under every interleaving of ingest, PATCH and remove, a record is   *)
(* created as processing and its status afterwards only goes from          *)
(* processing to ready or from processing to failed, and then stays.       *)
C1_StatusOnlyAdvances ==
    [][\A id \in Ids :
          /\ (~Exists(id) /\ table'[id].status # "absent")
                => table'[id].status = "processing"
          /\ (Exists(id) /\ table'[id].status # "absent")
                => \/ table'[id].status = table[id].status
                   \/ /\ table[id].status = "processing"
                      /\ table'[id].status \in {"ready", "failed"}]_vars

(* C2: once uploadAndCreateDocument has finished for a record it created,  *)
(* and while no remove has run for it, the record is ready with a          *)
(* geminiDocumentId or failed with an errorMessage, exactly one of the     *)
(* two, and so never processing.                                           *)
C2_ReadyOrFailedAfterIngest ==
    \A u \in DOMAIN up :
        (Done(u) /\ up[u].id # NoId /\ ~RemoveInvoked(up[u].id))
            => LET d == table[up[u].id] IN
               ~((d.status = "ready" /\ d.geminiDocumentId # Undefined)
                    <=> (d.status = "failed" /\ d.errorMessage # Undefined))

C4_DoneLeavesReady ==
    \A u \in DOMAIN up :
        (/\ Done(u)
         /\ up[u].op.done /\ up[u].op.error = Undefined /\ up[u].op.response # Undefined
         /\ ~RemoveInvoked(up[u].id))
            => /\ up[u].final.status = "ready"
               /\ up[u].final.geminiDocumentId = up[u].op.response
               /\ up[u].final.geminiFileSearchStoreName = up[u].storeName
               /\ up[u].final.errorMessage = Undefined
               /\ up[u].blobName \in blobs

(* C4, as the code has it: when the operation reports done without an      *)
(* error and with the handle h, and the update to ready does not throw,    *)
(* the ingest returns with the record ready, geminiDocumentId = h and the  *)
(* store the ingest call used; it adds no errorMessage (one is there only  *)
(* if a PATCH had set it) and deletes no blob (the blob is there unless a  *)
(* remove has deleted it).                                                 *)
C4_DoneAndWrittenLeavesReady ==
    \A u \in DOMAIN up :
        (/\ Done(u)
         /\ up[u].op.done /\ up[u].op.error = Undefined /\ up[u].op.response # Undefined
         /\ up[u].cause # "ready_write")
            => /\ up[u].outcome = "returned"
               /\ up[u].final.status = "ready"
               /\ up[u].final.geminiDocumentId = up[u].op.response
               /\ up[u].storeName # Undefined
               /\ up[u].final.geminiFileSearchStoreName = up[u].storeName
               /\ up[u].final.errorMessage \in {Undefined, PatchMsg}
               /\ up[u].blobName \in blobs \/ BlobDeletedByRemove(up[u].blobName)

C4_Witness ==
    \E u \in DOMAIN up :
        /\ Done(u) /\ up[u].outcome = "returned"
        /\ up[u].op.response = FileHandle(u) /\ up[u].op.name = OperationName(u)
        /\ up[u].final.geminiDocumentId = FileHandle(u)
        /\ up[u].blobName \in blobs

C6_FailedKeepsBlob ==
    \A id \in Ids :
        (Exists(id) /\ table[id].status = "failed" /\ ~RemoveInvoked(id))
            => table[id].blobName \in blobs

(* C7, as the spec states it: the ingest call is never issued for a        *)
(* document that has no record or no blob.                                 *)
C7_IngestOnlyForStoredDocument ==
    [][\A u \in DOMAIN up :
          (up[u].pc # "ingest" /\ up'[u].pc = "ingest")
              => /\ up'[u].id \in Ids
                 /\ table'[up'[u].id].status # "absent"
                 /\ up'[u].blobName \in blobs']_vars

(* C7, as the code has it: the blob is written before the record is        *)
(* created, the record is created as processing with that blob's name, and *)
(* the ingest call is issued only after both have been done.               *)
C7_BlobThenRecordThenIngest ==
    [][\A u \in DOMAIN up :
          /\ (up[u].blobName = Undefined /\ up'[u].blobName # Undefined)
                => /\ up[u].id = NoId
                   /\ ~Contains(up[u].order, "ingest")
                   /\ up'[u].blobName \in blobs'
          /\ (up[u].id = NoId /\ up'[u].id # NoId)
                => /\ up[u].blobName # Undefined
                   /\ ~Contains(up[u].order, "ingest")
                   /\ table[up'[u].id].status = "absent"
                   /\ table'[up'[u].id] = NewDocument(up[u].blobName)
          /\ (up[u].pc # "ingest" /\ up'[u].pc = "ingest")
                => /\ up'[u].id # NoId
                   /\ up'[u].blobName # Undefined
                   /\ up'[u].order = <<"blob", "record", "ingest">>]_vars

C7_Witness ==
    \E u \in DOMAIN up :
        /\ up[u].pc = "ingest"
        /\ up[u].order = <<"blob", "record", "ingest">>
        /\ Exists(up[u].id) /\ up[u].blobName \in blobs

C9_FailureThrows ==
    \A u \in DOMAIN up :
        /\ up[u].cause # "none" => up[u].outcome # "returned"
        /\ up[u].pc = "done"
              => /\ up[u].cause # "none" => up[u].outcome = "thrown"
                 /\ up[u].outcome = "thrown" => up[u].http = 500
                 /\ up[u].http = 201 <=> up[u].outcome = "returned"
                 /\ up[u].outcome = "returned"
                       => /\ up[u].cause = "none"
                          /\ WriteAccepted(u)
                          /\ up[u].final.status = "ready"

C9_Witness ==
    \E u \in DOMAIN up :
        /\ up[u].pc = "done" /\ up[u].cause = "ingest"
        /\ up[u].outcome = "thrown" /\ up[u].http = 500

(* C10: a remove of an existing document deletes the blob, then the        *)
(* retrieval handle if the record has one, then the record; the record is  *)
(* never deleted before the blob's deletion has completed.                 *)
C10_BlobBeforeRecord ==
    \A r \in DOMAIN rm :
        (rm[r].existed /\ Contains(rm[r].log, "record"))
            => \/ rm[r].log = <<"blob", "record">>
                    /\ (rm[r].doc.geminiDocumentId = Undefined \/ ~apiKey)
               \/ rm[r].log = <<"blob", "gemini", "record">>
                    /\ rm[r].doc.geminiDocumentId # Undefined

(* C11, as the spec states it: a remove that met a blob already gone, or   *)
(* a failed retrieval-service deletion, still deletes the record and       *)
(* completes successfully.                                                 *)
C11_RemoveCompletesDespiteMissing ==
    \A r \in DOMAIN rm :
        (rm[r].pc = "done" /\ (rm[r].missing \/ rm[r].warned))
            => rm[r].http = 200 /\ Contains(rm[r].log, "record")

(* C11, as the code has it: a blob already gone and a failed               *)
(* retrieval-service deletion raise no error, and remove goes on to the    *)
(* record's deletion; a remove fails only by a throw of the blob deletion  *)
(* call or of the record deletion, and when the record deletion is         *)
(* accepted it completes successfully.                                     *)
C11_MissingRaisesNoError ==
    \A r \in DOMAIN rm :
        /\ rm[r].missing => Contains(rm[r].log, "blob")
        /\ rm[r].warned => (Contains(rm[r].log, "gemini") /\ rm[r].pc \in {"record", "done"})
        /\ (rm[r].pc = "done" /\ rm[r].http = 500)
              => /\ rm[r].err \in {SdkMsg("deleteIfExists"), SdkMsg("deleteEntity"),
                                    <<"ResourceNotFound">>}
                 /\ rm[r].err = SdkMsg("deleteIfExists") => rm[r].log = <<>>
        /\ (rm[r].pc = "done" /\ rm[r].err = Undefined)
              => rm[r].http = 200 /\ Contains(rm[r].log, "record")

C11_Witness ==
    \E r \in DOMAIN rm :
        /\ rm[r].pc = "done" /\ rm[r].missing /\ rm[r].warned
        /\ rm[r].http = 200 /\ ~Exists(rm[r].id)

(* C12: a remove for an id that has no record goes straight to the         *)
(* record's deletion, deletes no blob and no retrieval handle, and fails   *)
(* there with the table's not-found error (or with the error of the call), *)
(* leaving every store as it was.                                          *)
C12_AbsentRecordFails ==
    [][\A r \in DOMAIN rm :
          /\ (rm[r].pc = "idle" /\ rm'[r].pc # "idle" /\ ~Exists(rm'[r].id))
                => /\ rm'[r].pc = "record"
                   /\ ~rm'[r].doc.found
                   /\ blobs' = blobs /\ deleteCalls' = deleteCalls
          /\ (rm[r].pc = "record" /\ rm'[r].pc = "done" /\ ~rm[r].doc.found
                /\ ~Exists(rm[r].id))
                => /\ rm'[r].http = 500
                   /\ rm'[r].err \in {<<"ResourceNotFound">>, SdkMsg("deleteEntity")}
                   /\ rm'[r].log = <<>>
                   /\ table' = table /\ blobs' = blobs /\ deleteCalls' = deleteCalls]_vars

C12_Witness ==
    \E r \in DOMAIN rm :
        /\ rm[r].pc = "done" /\ ~rm[r].existed /\ ~Exists(rm[r].id)
        /\ rm[r].http = 500 /\ rm[r].err = <<"ResourceNotFound">> /\ rm[r].log = <<>>

(* C13: when the blob's deletion throws, remove stops and the failure      *)
(* reaches the caller: no retrieval-service deletion, no record deletion,  *)
(* the record and the blob as they were; a throw of the record's deletion  *)
(* reaches the caller too and leaves the record as it was.                 *)
C13_DeleteFailurePropagates ==
    [][\A r \in DOMAIN rm :
          /\ (rm[r].pc = "blob" /\ rm'[r].pc # "blob" /\ rm'[r].log = rm[r].log)
                => /\ rm'[r].pc = "done"
                   /\ rm'[r].http = 500
                   /\ rm'[r].err = SdkMsg("deleteIfExists")
                   /\ rm'[r].log = <<>>
                   /\ table' = table /\ blobs' = blobs /\ deleteCalls' = deleteCalls
          /\ (rm[r].pc = "record" /\ rm'[r].pc # "record" /\ rm'[r].log = rm[r].log)
                => /\ rm'[r].pc = "done"
                   /\ rm'[r].http = 500
                   /\ rm'[r].err # Undefined
                   /\ table' = table
          /\ (rm[r].pc = "done" /\ rm[r].http = 500) => rm'[r] = rm[r]]_vars

C13_Witness ==
    \E r \in DOMAIN rm :
        /\ rm[r].pc = "done" /\ rm[r].http = 500 /\ rm[r].err = SdkMsg("deleteIfExists")
        /\ rm[r].doc.geminiDocumentId # Undefined
        /\ Exists(rm[r].id) /\ rm[r].doc.blobName \in blobs
        /\ rm[r].doc.geminiDocumentId \notin deleteCalls

(* C14: however many callers getOrCreateFileSearchStore has, and however   *)
(* they interleave, fileSearchStores.create is called at most once in the  *)
(* life of the process.                                                    *)
C14_AtMostOneStoreCreation == createCalls <= 1

(* C15: a caller of getOrCreateFileSearchStore that finds the cache empty  *)
(* and the registration record persisted returns the persisted handle and  *)
(* caches it, without a store-creation call and without a write to the     *)
(* registration record.                                                    *)
C15_PersistedHandleReturned ==
    [][\A u \in DOMAIN up :
          (up[u].pc = "store_read" /\ up'[u].pc # "store_read" /\ storeReg # Undefined)
              => /\ up'[u].pc \in {"ingest", "poll", "ready_read", "fail_read"}
                 /\ up'[u].storeName = storeReg
                 /\ cachedStoreName' = storeReg
                 /\ createCalls' = createCalls
                 /\ storeReg' = storeReg]_vars

(* The search has answered. *)
Answered == search.pc \in {"done", "rendered"}

(* The original positions of the fragments: 0 .. N-1. *)
Positions == 0..(Len(search.chunks) - 1)

(* The document ID that the fragment at a position resolves to. *)
Resolved(i) == DocumentId(search.docs, search.chunks[i + 1])

(* The citation at k lists the position i. *)
Lists(k, i) ==
    \E j \in 1..Len(search.citations[k].chunkIndices) :
        search.citations[k].chunkIndices[j] = i

(* The chunks carry the uris a, b, a, b, a. *)
AlternatingChunks ==
    /\ search.docs = IndexedDocs
    /\ Len(search.chunks) = 5
    /\ \A i \in Positions :
          search.chunks[i + 1].uri = IF i \in {0, 2, 4} THEN "files/a" ELSE "files/b"

(* C16: the answer has exactly one citation for each distinct resolved     *)
(* document ID, and chunkToCitationMap sends every original position to    *)
(* the index of the citation of that position's document; positions        *)
(* {0,2,4} on A and {1,3} on B give 2 citations and {0:1,2:1,4:1,1:2,3:2}. *)
C16_OneCitationPerDocument ==
    Answered =>
        /\ Len(search.citations) = Cardinality({Resolved(i) : i \in Positions})
        /\ \A k, m \in 1..Len(search.citations) :
              search.citations[k].documentId = search.citations[m].documentId => k = m
        /\ DOMAIN search.chunkToCitationMap = Positions
        /\ \A i \in Positions :
              \E k \in 1..Len(search.citations) :
                 /\ search.citations[k].documentId = Resolved(i)
                 /\ search.citations[k].index = search.chunkToCitationMap[i]
                 /\ Lists(k, i)
        /\ AlternatingChunks
              => /\ Len(search.citations) = 2
                 /\ search.chunkToCitationMap = [i \in 0..4 |-> IF i \in {0, 2, 4} THEN 1 ELSE 2]

C16_Witness ==
    /\ Answered /\ AlternatingChunks
    /\ Len(search.citations) = 2
    /\ search.chunkToCitationMap[4] = 1 /\ search.chunkToCitationMap[3] = 2

(* C17: the citation indices are 1..K in the order of the list, and the    *)
(* list is in the order in which the documents first appear among the      *)
(* fragments.                                                              *)
C17_IndicesInOrderOfAppearance ==
    Answered =>
        /\ \A k \in 1..Len(search.citations) : search.citations[k].index = k
        /\ \A k \in 1..Len(search.citations) :
              LET first == search.citations[k].chunkIndices[1] IN
              /\ Resolved(first) = search.citations[k].documentId
              /\ \A i \in Positions :
                    Resolved(i) = search.citations[k].documentId => first <= i
        /\ \A k, m \in 1..Len(search.citations) :
              k < m => search.citations[k].chunkIndices[1] < search.citations[m].chunkIndices[1]

C17_Witness ==
    /\ Answered
    /\ Len(search.citations) = 3
    /\ search.citations[1].documentId = "2" /\ search.citations[1].index = 1
    /\ search.citations[2].documentId = "files/x"
    /\ search.citations[3].documentId = "1" /\ search.citations[3].index = 3
    /\ Len(search.citations[1].chunkIndices) = 2

(* The documents that a fragment matches under each strategy, and the      *)
(* first of a set of positions (0 for none).                               *)
HandleMatches(c) ==
    {d \in 1..Len(search.docs) : search.docs[d].geminiDocumentId = c.uri}
ExactMatches(c) == {d \in 1..Len(search.docs) : search.docs[d].title = c.title}
LowerMatches(c) ==
    {d \in 1..Len(search.docs) : ToLowerCase(search.docs[d].title) = ToLowerCase(c.title)}
StrippedMatches(c) ==
    {d \in 1..Len(search.docs) :
        ToLowerCase(StripExtension(search.docs[d].title)) = ToLowerCase(StripExtension(c.title))}
First(S) == IF S = {} THEN 0 ELSE CHOOSE d \in S : \A e \in S : d <= e

(* The document that the strict priority gives a fragment. *)
ByPriority(c) ==
    IF HandleMatches(c) # {} THEN First(HandleMatches(c))
    ELSE IF c.title = <<>> THEN 0
    ELSE IF ExactMatches(c) # {} THEN First(ExactMatches(c))
    ELSE IF LowerMatches(c) # {} THEN First(LowerMatches(c))
    ELSE First(StrippedMatches(c))

(* The documentId of the citation that lists a position. *)
CitedId(i) ==
    search.citations[CHOOSE k \in 1..Len(search.citations) : Lists(k, i)].documentId

(* C18: each fragment is cited under the document that the strict priority *)
(* gives: the first document with the fragment's handle; failing that and  *)
(* only if the fragment has a title, the first with exactly its title,     *)
(* failing that the first with its title up to letter case, failing that   *)
(* the first with its title up to letter case and extension.               *)
C18_StrictPriority ==
    Answered =>
        \A i \in Positions :
            LET c == search.chunks[i + 1] IN
            /\ \E k \in 1..Len(search.citations) : Lists(k, i)
            /\ CitedId(i) = IF ByPriority(c) # 0 THEN search.docs[ByPriority(c)].id ELSE c.uri

C18_Witness ==
    /\ Answered
    /\ \E i \in Positions :
          LET c == search.chunks[i + 1] IN
          /\ HandleMatches(c) = {} /\ ExactMatches(c) = {}
          /\ LowerMatches(c) # {}
          /\ First(StrippedMatches(c)) < First(LowerMatches(c))
          /\ CitedId(i) = search.docs[First(LowerMatches(c))].id

(* A fragment title and a document title differ only by a trailing        *)
(* .pdf/.doc/.docx/.txt in some letter case.                               *)
Extensions == {<<".", "p", "d", "f">>, <<".", "d", "o", "c">>,
               <<".", "d", "o", "c", "x">>, <<".", "t", "x", "t">>}
EndsWithExtension(long, short) ==
    /\ Len(long) > Len(short)
    /\ SubSeq(long, 1, Len(short)) = short
    /\ ToLowerCase(SubSeq(long, Len(short) + 1, Len(long))) \in Extensions
DiffersBySuffix(t, title) == EndsWithExtension(t, title) \/ EndsWithExtension(title, t)

SameSource(c, e) ==
    IF c.uri # "" \/ e.uri # "" THEN c.uri = e.uri ELSE c.title = e.title

(* C20: a fragment that matches no document is cited by an entry that      *)
(* lists its position, has the fragment's raw reference as documentId, and *)
(* lists no fragment of a different unresolved source.                     *)
C20_UnresolvedHasOwnCitation ==
    Answered =>
        \A i \in Positions :
            ByPriority(search.chunks[i + 1]) = 0
                => \E k \in 1..Len(search.citations) :
                      /\ Lists(k, i)
                      /\ search.citations[k].documentId = search.chunks[i + 1].uri
                      /\ \A j \in Positions :
                            Lists(k, j) => SameSource(search.chunks[i + 1], search.chunks[j + 1])

(* The marker [k] of the answer and what the page puts in its place. *)
Rendered == search.pc = "rendered"
Marker(i) == Content[i]
Replaced(i) == search.processedContent[i]
InRange(i) == Marker(i) \in 1..Len(search.chunks)

(* C21: for a response built from N fragments, the page replaces every    *)
(* marker [k] with 1 <= k <= N by the citation number                      *)
(* chunkToCitationMap[k-1], which is an index of the citation list; the    *)
(* markers of fragments of one document get the same number; a marker     *)
(* with k outside 1..N is left as it is.                                   *)
C21_MarkersRemapped ==
    Rendered =>
        /\ \A i \in 1..Len(Content) :
              IF InRange(i)
              THEN /\ Marker(i) - 1 \in DOMAIN search.chunkToCitationMap
                   /\ Replaced(i)[1] = "link"
                   /\ Replaced(i)[2] = search.chunkToCitationMap[Marker(i) - 1]
                   /\ Replaced(i)[3] = Replaced(i)[2]
                   /\ \E j \in 1..Len(search.citations) :
                          search.citations[j].index = Replaced(i)[2]
              ELSE Replaced(i) = <<"match", Marker(i)>>
        /\ \A i, j \in 1..Len(Content) :
              (InRange(i) /\ InRange(j)
                  /\ Resolved(Marker(i) - 1) = Resolved(Marker(j) - 1))
              => Replaced(i)[2] = Replaced(j)[2]

(* Rendered: markers 1 and 3 of one document, marker 2 of another, and a   *)
(* marker beyond the last fragment.                                        *)
C21_Witness ==
    /\ Rendered
    /\ Len(search.chunks) = 3
    /\ Resolved(0) = Resolved(2)
    /\ Resolved(0) # Resolved(1)
    /\ Replaced(2)[2] = 1 /\ Replaced(4)[2] = 1 /\ Replaced(3)[2] = 2
    /\ Replaced(5) = <<"match", 4>>
    /\ Replaced(1) = <<"match", 0>>

(* The positions handled so far of the fragments with a document ID. *)
Group(documentId) == {i \in 0..(search.chunkIndex - 1) : Resolved(i) = documentId}

(* C30: for every group of fragments that resolve to one document, the    *)
(* citation carries the snippet and the title taken from the fragment of   *)
(* the smallest position; the later fragments of the group only add their  *)
(* positions, so at no point of the resolution does the entry show the     *)
(* snippet or title of a later fragment.                                   *)
C30_FirstFragmentFixesSnippet ==
    \A k \in 1..Len(search.citationMap) :
        LET entry == search.citationMap[k]
            first == entry.chunkIndices[1]
        IN /\ first \in Group(entry.documentId)
           /\ \A i \in Group(entry.documentId) : first <= i
           /\ entry.snippet = Snippet(search.chunks[first + 1])
           /\ entry.title = CitationTitle(search.docs, search.chunks[first + 1])
           /\ Answered => /\ search.citations[k].snippet = entry.snippet
                           /\ search.citations[k].title = entry.title

(* Answered: the fragments 0 and 2 are of one document, with the texts s   *)
(* and t, and the citation keeps s.                                        *)
C30_Witness ==
    /\ Answered
    /\ Len(search.chunks) = 3
    /\ Resolved(0) = Resolved(2)
    /\ Resolved(1) # Resolved(0)
    /\ search.chunks[1].text = "s"
    /\ search.chunks[3].text = "t"
    /\ search.citations[1].snippet = "s"
    /\ search.citations[1].chunkIndices = <<0, 2>>

(* C22: two distinct uploads never get the same blob name, whatever their  *)
(* file names and the clock values they observe; so no upload writes over  *)
(* the blob of another.                                                    *)
C22_BlobNamesDiffer ==
    \A u, v \in DOMAIN up :
        (u # v /\ up[u].blobName # Undefined /\ up[v].blobName # Undefined)
            => up[u].blobName # up[v].blobName

(* C23: every upload that wrote its blob, and whose createEntity call the  *)
(* Metadata Store did not fail for a reason of its own, has its own        *)
(* record: an ID, and one that no other upload was given, also when two    *)
(* creations observe the same clock value.                                 *)
C23_OwnRecordWithFreshId ==
    \A u \in DOMAIN up :
        (/\ up[u].blobName # Undefined
         /\ up[u].pc # "create"
         /\ up[u].err # SdkMsg("createEntity"))
            => /\ up[u].id # NoId
               /\ \A v \in DOMAIN up \ {u} :
                      up[v].id # NoId => up[v].id < up[u].id \/ up[u].id < up[v].id

(* No PATCH request has started. *)
NoPatch == \A p \in DOMAIN pt : pt[p].pc = "idle"

C25_LoopExitsOnDoneOrCeiling ==
    \A u \in DOMAIN up :
        /\ up[u].waited = pollInterval * up[u].fetches
        /\ up[u].fetches <= maxAttempts
        /\ up[u].pc = "poll" => ~up[u].op.done /\ up[u].pollAttempts < maxAttempts
        /\ up[u].op.done
              => /\ up[u].pc # "poll"
                 /\ up[u].fetches = up[u].pollAttempts
                 /\ up[u].cause # "timeout"
                 /\ up[u].pc \in {"ready_read", "ready_write"} \/ up[u].cause # "none"
                       \/ up[u].outcome = "returned"
        /\ up[u].cause = "timeout"
              => ~up[u].op.done /\ up[u].pollAttempts = maxAttempts
                    /\ up[u].fetches = maxAttempts

(* The operation reported done at the 60th fetch, after 60 waits, and the  *)
(* upload completed.                                                       *)
C25_Witness ==
    \E u \in DOMAIN up :
        /\ up[u].op.done /\ up[u].op.error = Undefined
        /\ up[u].fetches = maxAttempts /\ up[u].waited = maxAttempts * pollInterval
        /\ Done(u) /\ up[u].outcome = "returned" /\ up[u].final.status = "ready"

(* The ingest calls that the upload has issued. *)
IngestCalls(r) == Cardinality({i \in 1..Len(r.order) : r.order[i] = "ingest"})

(* C26: no upload issues the ingest call more than once, and once          *)
(* uploadAndCreateDocument has returned or thrown, no step fetches the     *)
(* operation or writes the record for that upload any more.                *)
C26_NoRetryNoLateStep ==
    [][\A u \in DOMAIN up :
          /\ IngestCalls(up'[u]) <= 1
          /\ up[u].pc = "done"
                => /\ up'[u].pc = "done"
                   /\ up'[u].fetches = up[u].fetches
                   /\ up'[u].writes = up[u].writes
                   /\ up'[u].order = up[u].order]_vars

(* The ingest call threw; the upload has ended with that one call and no   *)
(* fetch, and the record was set to failed.                                *)
C26_Witness ==
    \E u \in DOMAIN up :
        /\ Done(u) /\ up[u].outcome = "thrown" /\ up[u].cause = "ingest"
        /\ IngestCalls(up[u]) = 1 /\ up[u].fetches = 0 /\ up[u].writes = 1

C28_CacheHitWithoutIo ==
    [][\A u \in DOMAIN up :
          (/\ up[u].pc = "create" /\ up'[u].id # NoId
           /\ apiKey /\ cachedStoreName # Undefined)
              => /\ up'[u].pc = "ingest"
                 /\ up'[u].storeName = cachedStoreName
                 /\ up'[u].storeIo = 0
                 /\ cachedStoreName' = cachedStoreName
                 /\ storeReg' = storeReg
                 /\ createCalls' = createCalls]_vars

(* An upload that issued its ingest call with the cached handle without    *)
(* any store call of its own; the other upload created the store.          *)
C28_Witness ==
    \E u, v \in DOMAIN up :
        /\ u # v
        /\ up[u].pc = "ingest" /\ up[u].storeIo = 0
        /\ up[u].storeName = cachedStoreName /\ cachedStoreName = storeReg
        /\ Contains(up[v].order, "ingest") /\ createCalls = 1

(* C29: when fileSearchStores.create returns a store without a name, the   *)
(* call fails with the no-name error: it goes to no persist step and to no *)
(* ingest call, writes no registration record and does not set the cache;  *)
(* a call that finds the cache unset starts from the read of the           *)
(* registration record.                                                    *)
C29_NoNameFailsWithoutTrace ==
    [][\A u \in DOMAIN up :
          /\ (up[u].pc = "store_create" /\ up'[u] # up[u])
                => /\ storeReg' = storeReg /\ cachedStoreName' = cachedStoreName
                   /\ \/ /\ up'[u].pc = "store_persist"
                         /\ up'[u].storeName = StoreHandle(createCalls')
                      \/ /\ up'[u].pc = "fail_read" /\ up'[u].cause = "store"
                         /\ up'[u].err \in {StoreMsg, SdkMsg("fileSearchStores.create")}
                         /\ up'[u].storeName = Undefined
                         /\ ~Contains(up'[u].order, "ingest")
          /\ up[u].err = StoreMsg
                => up'[u].pc \in {"fail_read", "fail_write", "done"}
                      /\ up'[u].outcome # "returned"
          /\ (up[u].pc = "create" /\ up'[u].id # NoId /\ apiKey
                 /\ cachedStoreName = Undefined)
                => up'[u].pc = "store_read"]_vars

(* The creation gave no name to one upload, which ended in failure; the    *)
(* registration and the cache are unset, and the other upload is at the    *)
(* read of the registration record.                                        *)
C29_Witness ==
    \E u, v \in DOMAIN up :
        /\ Done(u) /\ up[u].err = StoreMsg /\ up[u].outcome = "thrown"
        /\ storeReg = Undefined /\ cachedStoreName = Undefined
        /\ up[v].pc = "store_read" /\ up[v].storeIo = 0

(* C31: in the answer for N fragments the chunkIndices of the citations    *)
(* are a partition of 0..N-1: each list is non-empty and ascending, every  *)
(* position is in exactly one list, and chunkToCitationMap has exactly the *)
(* keys 0..N-1; a document to which no fragment resolved has no citation   *)
(* and no value of the map points to one.                                  *)
C31_ChunkIndicesPartition ==
    Answered =>
        /\ \A k \in 1..Len(search.citations) :
              LET list == search.citations[k].chunkIndices
              IN /\ Len(list) > 0
                 /\ \A j \in 1..Len(list) : list[j] \in Positions
                 /\ \A j \in 1..(Len(list) - 1) : list[j] < list[j + 1]
                 /\ \E i \in Positions : Resolved(i) = search.citations[k].documentId
        /\ \A i \in Positions :
              /\ \E k \in 1..Len(search.citations) : Lists(k, i)
              /\ \A k, m \in 1..Len(search.citations) :
                    (Lists(k, i) /\ Lists(m, i)) => k = m
        /\ DOMAIN search.chunkToCitationMap = Positions
        /\ \A d \in 1..Len(search.docs) :
              (\A i \in Positions : Resolved(i) # search.docs[d].id)
                  => \A k \in 1..Len(search.citations) :
                        search.citations[k].documentId # search.docs[d].id

(* Four fragments of the first indexed document and of an unknown file:    *)
(* the lists <<0, 3>> and <<1, 2>>, and no citation of the second document. *)
C31_Witness ==
    /\ Answered
    /\ search.docs = IndexedDocs
    /\ Len(search.chunks) = 4
    /\ Len(search.citations) = 2
    /\ search.citations[1].documentId = "1"
    /\ search.citations[1].chunkIndices = <<0, 3>>
    /\ search.citations[2].documentId = "files/x"
    /\ search.citations[2].chunkIndices = <<1, 2>>
    /\ DOMAIN search.chunkToCitationMap = 0..3

(* The step of an upload, a search or a remove in which getGeminiClient()  *)
(* is called on a process without GEMINI_API_KEY.                          *)
UploadNeedsKey(u) == up[u].pc = "create" /\ up'[u].id # NoId /\ ~apiKey
SearchNeedsKey == search.pc = "idle" /\ search'.pc # "idle" /\ ~apiKey
RemoveNeedsKey(r) ==
    /\ rm[r].pc = "blob" /\ Contains(rm'[r].log, "blob")
    /\ rm[r].doc.geminiDocumentId # Undefined /\ ~apiKey

C33_HandlesEqualPersisted ==
    /\ cachedStoreName # Undefined => cachedStoreName = storeReg
    /\ \A u \in DOMAIN up :
          /\ Contains(up[u].order, "ingest")
                => up[u].storeName # Undefined /\ up[u].storeName = storeReg
          /\ up[u].cause = "store"
                => /\ ~Contains(up[u].order, "ingest")
                   /\ up[u].storeName = Undefined
                   /\ up[u].outcome # "returned"

(* Two first-time callers each created a store; one persisted its handle   *)
(* and went on with it, the other was refused by createEntity and failed.  *)
C33_Witness ==
    \E u, v \in DOMAIN up :
        /\ u # v /\ createCalls = 2
        /\ Done(u) /\ up[u].cause = "store" /\ up[u].err = SdkMsg("createEntity")
        /\ up[u].outcome = "thrown"
        /\ Contains(up[v].order, "ingest") /\ up[v].storeName = storeReg
        /\ cachedStoreName = storeReg

C35_RemovedStaysRemoved ==
    \A r \in DOMAIN rm :
        (rm[r].pc = "done" /\ rm[r].http = 200) => ~Exists(rm[r].id)

(* C36: when a remove that found the record has completed successfully,    *)
(* on a process with the credential, every handle that the ingest of that  *)
(* document has obtained from the Retrieval Service has been passed to     *)
(* files.delete, however remove and ingest interleave.                     *)
C36_ObtainedHandlesDeleted ==
    \A r \in DOMAIN rm : \A u \in DOMAIN up :
        (/\ rm[r].pc = "done" /\ rm[r].http = 200 /\ rm[r].doc.found /\ apiKey
         /\ up[u].id = rm[r].id
         /\ up[u].result.geminiDocumentId # Undefined)
            => up[u].result.geminiDocumentId \in deleteCalls

(* C37: when createDocument fails after the blob was written, the upload   *)
(* throws at that step: it has made no Retrieval Service call, the blob is *)
(* not deleted, and it stays in the object store with no record that       *)
(* references it; nothing compensates for a failure before the ingest.     *)
C37_CreateFailureLeavesOrphanBlob ==
    [][\A u \in DOMAIN up :
          (up[u].pc = "create" /\ up'[u].pc = "done")
              => /\ up'[u].outcome = "thrown" /\ up'[u].http = 500
                 /\ up'[u].id = NoId
                 /\ up'[u].order = <<"blob">>
                 /\ up'[u].storeIo = 0 /\ up'[u].fetches = 0
                 /\ up'[u].result = NoResult
                 /\ createCalls' = createCalls /\ deleteCalls' = deleteCalls
                 /\ storeReg' = storeReg /\ cachedStoreName' = cachedStoreName
                 /\ blobs' = blobs /\ up[u].blobName \in blobs'
                 /\ table' = table
                 /\ \A id \in Ids : Exists(id)'
                        => table'[id].blobName # up[u].blobName]_vars

====
